---- MODULE Spec2Model ----
(***************************************************************************)
(* A model of cdasim: the agents and their bid shading (src/src/agent.rs), *)
(* the call market and the continuous double auction (src/src/market.rs)   *)
(* and the round driver run_sim with its welfare features                  *)
(* (src/src/main.rs).                                                      *)
(*                                                                         *)
(* Numbers.  An f64 is modelled as an exact fixed-point number: an integer *)
(* count of units of 1/M.  Values and shading strengths lie on the grid    *)
(* 0, 1/D, ..., 1, and M = 2*D^3 is chosen so that every product, every    *)
(* sum and every halving the program performs on grid inputs is again an   *)
(* integer number of units (no rounding happens in the model).  The only   *)
(* irrational operation, exp, is computed by a truncated Taylor series     *)
(* rounded down to a multiple of 1/D^2.  NaN is one distinguished value    *)
(* that every arithmetic operation propagates and every comparison         *)
(* rejects.  The running CDA average is kept as an exact fraction.         *)
(***************************************************************************)
EXTENDS Integers, Sequences, FiniteSets, TLC

VARIABLES
    agents,      \* the population slice: a sequence of Agent records
    useCda,      \* the configured market: TRUE = Cda, FALSE = Call
    pc,          \* where the driver stands
    ret,         \* the Option<f64> the last simulate returned
    ce_price,    \* run_sim's local ce_price
    ce_surplus,  \* run_sim's local ce_surplus
    features,    \* the Features run_sim returned last
    buys,        \* Cda: the heap of resting buyers (slice positions)
    sells,       \* Cda: the heap of resting sellers (slice positions)
    idx,         \* Cda: the position the for loop processes next
    avg_price,   \* Cda: the running average price, a fraction
    num_trans    \* Cda: the number of transactions so far

vars == <<agents, useCda, pc, ret, ce_price, ce_surplus, features,
          buys, sells, idx, avg_price, num_trans>>

cdaVars == <<buys, sells, idx, avg_price, num_trans>>
simVars == <<ce_price, ce_surplus, features>>

-----------------------------------------------------------------------------
(* Bounds of the model *)

\* values and shading strengths are the multiples of 1/D in [0, 1]
D == 2
\* the most buyers and the most sellers of a population of run_sim
MaxBuyers == 2
MaxSellers == 2
\* the largest population handed directly to a market
MaxMarketAgents == 4
\* the number of terms after the first of the series that computes exp
ExpTerms == 6

-----------------------------------------------------------------------------
(* Fixed-point numbers *)

\* the longest slice handed to the Cda alone
MaxCdaAgents == 6

\* units per 1.0
M == 2 * D * D * D
One == M
\* f64::NAN: outside the range of every number the model computes
NaN == 0 - (M * M * M)

IsNaN(x) == x = NaN

FNeg(x) == IF IsNaN(x) THEN NaN ELSE 0 - x
FAdd(x, y) == IF IsNaN(x) \/ IsNaN(y) THEN NaN ELSE x + y
FSub(x, y) == IF IsNaN(x) \/ IsNaN(y) THEN NaN ELSE x - y
FMul(x, y) == IF IsNaN(x) \/ IsNaN(y) THEN NaN ELSE (x * y) \div M
FHalf(x) == IF IsNaN(x) THEN NaN ELSE x \div 2
\* the f64 comparison <=: false when either side is NaN
FLe(x, y) == ~IsNaN(x) /\ ~IsNaN(y) /\ x <= y

RECURSIVE Pow(_, _)
Pow(b, e) == IF e = 0 THEN 1 ELSE b * Pow(b, e - 1)

RECURSIVE Fact(_)
Fact(n) == IF n = 0 THEN 1 ELSE n * Fact(n - 1)

RECURSIVE TaylorSum(_, _)
\* sum over i in 0..n of (k/D)^i / i!, times D^ExpTerms * ExpTerms!
TaylorSum(k, n) ==
    LET term == Pow(k, n) * Pow(D, ExpTerms - n) * (Fact(ExpTerms) \div Fact(n))
    IN  IF n = 0 THEN term ELSE term + TaylorSum(k, n - 1)

\* f64::exp of x, a multiple of 1/D in [-1, 1]
FExp(x) ==
    IF IsNaN(x) THEN NaN
    ELSE LET k == (x * D) \div M
         IN  2 * D * ((D * D * TaylorSum(k, ExpTerms))
                       \div (Pow(D, ExpTerms) * Fact(ExpTerms)))

GridValues == {(i * M) \div D : i \in 0..D}

-----------------------------------------------------------------------------
(* agent.rs *)

Style == {"Standard", "Exponential", "Shift", "Correct"}

NewAgent(buyer, style, shading) ==
    [buyer |-> buyer, style |-> style, shading |-> shading,
     value |-> 0, bid |-> 0, utility |-> 0,
     traded |-> FALSE, ce_traded |-> FALSE]

sign(a) == IF a.buyer THEN One ELSE 0 - One

\* transact without the sign: the buyer's utility for a seller too
transactUnsigned(a, price) ==
    [a EXCEPT !.utility = FSub(a.value, price), !.traded = TRUE]

transact(a, price) ==
    [a EXCEPT !.utility = FMul(FSub(a.value, price), sign(a)),
              !.traded = TRUE]

reset(a) == [a EXCEPT !.utility = 0, !.traded = FALSE]

resample(a, v) ==
    reset([a EXCEPT !.value = v, !.bid = FMul(v, sign(a))])

\* ShadedBid with the exponent of Exponential of the opposite sign
ShadedBidExponentFlipped(a) ==
    CASE a.style = "Standard" \/ (a.style = "Correct" /\ a.buyer) ->
            FMul(a.value, FSub(sign(a), a.shading))
      [] a.style = "Correct" /\ ~a.buyer ->
            FSub(FMul(FSub(a.value, One), a.shading), a.value)
      [] a.style = "Exponential" ->
            FMul(FMul(sign(a), a.value), FExp(FMul(sign(a), a.shading)))
      [] a.style = "Shift" ->
            FSub(FMul(sign(a), a.value), a.shading)

\* ShadedBid with the Standard formula for the Correct seller too
ShadedBidCorrectAsStandard(a) ==
    CASE a.style = "Standard" \/ a.style = "Correct" ->
            FMul(a.value, FSub(sign(a), a.shading))
      [] a.style = "Exponential" ->
            FMul(FMul(sign(a), a.value), FExp(FMul(FNeg(sign(a)), a.shading)))
      [] a.style = "Shift" ->
            FSub(FMul(sign(a), a.value), a.shading)

\* ShadedBid with Standard adding the shading strength to the sign
ShadedBidStandardUp(a) ==
    CASE a.style = "Standard" \/ (a.style = "Correct" /\ a.buyer) ->
            FMul(a.value, FAdd(sign(a), a.shading))
      [] a.style = "Correct" /\ ~a.buyer ->
            FSub(FMul(FSub(a.value, One), a.shading), a.value)
      [] a.style = "Exponential" ->
            FMul(FMul(sign(a), a.value), FExp(FMul(FNeg(sign(a)), a.shading)))
      [] a.style = "Shift" ->
            FSub(FMul(sign(a), a.value), a.shading)

\* ShadedBid with one exponent for both roles: exp(-shading)
ShadedBidOneExponent(a) ==
    CASE a.style = "Standard" \/ (a.style = "Correct" /\ a.buyer) ->
            FMul(a.value, FSub(sign(a), a.shading))
      [] a.style = "Correct" /\ ~a.buyer ->
            FSub(FMul(FSub(a.value, One), a.shading), a.value)
      [] a.style = "Exponential" ->
            FMul(FMul(sign(a), a.value), FExp(FNeg(a.shading)))
      [] a.style = "Shift" ->
            FSub(FMul(sign(a), a.value), a.shading)

\* ShadedBid with Shift adding the shading strength
ShadedBidShiftUp(a) ==
    CASE a.style = "Standard" \/ (a.style = "Correct" /\ a.buyer) ->
            FMul(a.value, FSub(sign(a), a.shading))
      [] a.style = "Correct" /\ ~a.buyer ->
            FSub(FMul(FSub(a.value, One), a.shading), a.value)
      [] a.style = "Exponential" ->
            FMul(FMul(sign(a), a.value), FExp(FMul(FNeg(sign(a)), a.shading)))
      [] a.style = "Shift" ->
            FAdd(FMul(sign(a), a.value), a.shading)

ShadedBid(a) ==
    CASE a.style = "Standard" \/ (a.style = "Correct" /\ a.buyer) ->
            FMul(a.value, FSub(sign(a), a.shading))
      [] a.style = "Correct" /\ ~a.buyer ->
            FSub(FMul(FSub(a.value, One), a.shading), a.value)
      [] a.style = "Exponential" ->
            FMul(FMul(sign(a), a.value), FExp(FMul(FNeg(sign(a)), a.shading)))
      [] a.style = "Shift" ->
            FSub(FMul(sign(a), a.value), a.shading)

\* shade without the reset
shadeKeepsOutcome(a) == [a EXCEPT !.bid = ShadedBid(a)]

shade(a) == reset([a EXCEPT !.bid = ShadedBid(a)])

-----------------------------------------------------------------------------
(* market.rs: the call market *)

None == [some |-> FALSE, num |-> 0, den |-> 1]
Some(n, d) == [some |-> TRUE, num |-> n, den |-> d]

Positions(ags) == 1..Len(ags)
BuyerPos(ags) == {i \in Positions(ags) : ags[i].buyer}
SellerPos(ags) == {i \in Positions(ags) : ~ags[i].buyer}

\* sort_unstable_by compares every element of a slice of two or more, and
\* Ord::cmp panics ("got nan bids") when partial_cmp is None
SortPanics(ags, S) ==
    Cardinality(S) >= 2 /\ \E i \in S : IsNaN(ags[i].bid)

\* SortedDesc without the sort: the positions S in slice order
SliceOrder(ags, S) ==
    LET k == Cardinality(S)
    IN  {f \in [1..k -> S] :
            /\ \A i, j \in 1..k : f[i] = f[j] => i = j
            /\ \A i \in 1..(k - 1) : f[i] < f[i + 1]}

\* the orders sort_unstable_by(|a, b| a.cmp(b).reverse()) may leave the
\* positions S in: every arrangement with the bids descending
SortedDesc(ags, S) ==
    LET k == Cardinality(S)
    IN  {f \in [1..k -> S] :
            /\ \A i, j \in 1..k : f[i] = f[j] => i = j
            /\ \A i \in 1..(k - 1) : ags[f[i]].bid >= ags[f[i + 1]].bid}

Min(x, y) == IF x <= y THEN x ELSE y

RECURSIVE TakeWhileCountAtMostOne(_, _, _, _)
\* TakeWhileCount that stops after the first pair
TakeWhileCountAtMostOne(ags, bs, ss, i) ==
    IF i > Min(1, Min(Len(bs), Len(ss))) THEN 0
    ELSE IF FLe(FNeg(ags[ss[i]].bid), ags[bs[i]].bid)
         THEN 1 + TakeWhileCountAtMostOne(ags, bs, ss, i + 1)
         ELSE 0

RECURSIVE TakeWhileCount(_, _, _, _)
\* zip(buys, sells).take_while(-s.bid <= b.bid).count(), from pair i on
TakeWhileCount(ags, bs, ss, i) ==
    IF i > Min(Len(bs), Len(ss)) THEN 0
    ELSE IF FLe(FNeg(ags[ss[i]].bid), ags[bs[i]].bid)
         THEN 1 + TakeWhileCount(ags, bs, ss, i + 1)
         ELSE 0

\* CallCleared with the price of the first pair instead of the last matched
CallClearedFirstPair(ags, bs, ss) ==
    LET matched == TakeWhileCount(ags, bs, ss, 1)
        price == FHalf(FSub(ags[bs[1]].bid, ags[ss[1]].bid))
        hit == {bs[i] : i \in 1..matched} \cup {ss[i] : i \in 1..matched}
    IN  IF matched > 0
        THEN [agents |-> [i \in Positions(ags) |->
                            IF i \in hit THEN transact(ags[i], price)
                            ELSE ags[i]],
              ret |-> Some(price, 1), panic |-> FALSE]
        ELSE [agents |-> ags, ret |-> None, panic |-> FALSE]

\* CallCleared that takes a price of 0.0 for no price
CallClearedZeroIsNone(ags, bs, ss) ==
    LET matched == TakeWhileCount(ags, bs, ss, 1)
        price == FHalf(FSub(ags[bs[matched]].bid, ags[ss[matched]].bid))
        hit == {bs[i] : i \in 1..matched} \cup {ss[i] : i \in 1..matched}
    IN  IF matched > 0
        THEN [agents |-> [i \in Positions(ags) |->
                            IF i \in hit THEN transact(ags[i], price)
                            ELSE ags[i]],
              ret |-> IF price = 0 THEN None ELSE Some(price, 1),
              panic |-> FALSE]
        ELSE [agents |-> ags, ret |-> None, panic |-> FALSE]

\* the body of Call::simulate once both sides are sorted
CallCleared(ags, bs, ss) ==
    LET matched == TakeWhileCount(ags, bs, ss, 1)
        price == FHalf(FSub(ags[bs[matched]].bid, ags[ss[matched]].bid))
        hit == {bs[i] : i \in 1..matched} \cup {ss[i] : i \in 1..matched}
    IN  IF matched > 0
        THEN [agents |-> [i \in Positions(ags) |->
                            IF i \in hit THEN transact(ags[i], price)
                            ELSE ags[i]],
              ret |-> Some(price, 1), panic |-> FALSE]
        ELSE [agents |-> ags, ret |-> None, panic |-> FALSE]

\* every outcome of Call.simulate(ags)
CallSimulate(ags) ==
    IF SortPanics(ags, BuyerPos(ags)) \/ SortPanics(ags, SellerPos(ags))
    THEN {[agents |-> ags, ret |-> None, panic |-> TRUE]}
    ELSE {CallCleared(ags, bs, ss) :
            bs \in SortedDesc(ags, BuyerPos(ags)),
            ss \in SortedDesc(ags, SellerPos(ags))}

-----------------------------------------------------------------------------
(* market.rs: the continuous double auction *)

\* every order agents.shuffle may leave the slice in
Shuffles(ags) ==
    {[i \in Positions(ags) |-> ags[p[i]]] :
        p \in {q \in [Positions(ags) -> Positions(ags)] :
                 \A i, j \in Positions(ags) : q[i] = q[j] => i = j}}

HeapHasNaN(ags, H) == \E i \in H : IsNaN(ags[i].bid)

\* Top of a queue that keeps no order: any element may come first
TopUnordered(ags, H) == H

\* BinaryHeap::peek: a greatest element by Ord (the bid); which of several
\* equal ones is the heap's affair.  The heap is only specified for a total
\* order: with a NaN bid in it any element may be at the root.
Top(ags, H) ==
    IF HeapHasNaN(ags, H) THEN H
    ELSE {i \in H : \A j \in H : ags[j].bid <= ags[i].bid}

\* BinaryHeap::push sifts the new element up past its parents, and
\* BinaryHeap::pop sifts the last element down from the root: comparisons that
\* meet a NaN bid are outside the heap's contract, and may reach Ord::cmp
PushMayPanic(ags, H, i) ==
    H # {} /\ (IsNaN(ags[i].bid) \/ HeapHasNaN(ags, H))
PopMayPanic(ags, H, t) ==
    Cardinality(H) >= 3 /\ HeapHasNaN(ags, H \ {t})

Zero == [num |-> 0, den |-> 1]

\* AvgUpdate dividing by 2 from the second transaction on
AvgUpdateCapped(avg, price, n) ==
    LET k == IF n > 2 THEN 2 ELSE n
    IN  [num |-> avg.num * k + (price * avg.den - avg.num), den |-> avg.den * k]

\* AvgUpdate as a running sum: avg_price += price
AvgUpdateSum(avg, price, n) ==
    [num |-> avg.num + price * avg.den, den |-> avg.den]

\* avg_price += (price - avg_price) / num_trans as f64, n the new num_trans
AvgUpdate(avg, price, n) ==
    [num |-> avg.num * n + (price * avg.den - avg.num), den |-> avg.den * n]

\* the closure trans
trans(st, b, s, price) ==
    [st EXCEPT !.agents = [st.agents EXCEPT ![b] = transact(st.agents[b], price),
                                            ![s] = transact(st.agents[s], price)],
               !.num_trans = st.num_trans + 1,
               !.avg_price = AvgUpdate(st.avg_price, price, st.num_trans + 1)]

CdaPanic(st) == [st EXCEPT !.panic = TRUE]

\* BuyerArrives that leaves the seller it traded with in the book
BuyerArrivesNoPop(st, i, t) ==
    IF t # 0 /\ FLe(FNeg(st.agents[t].bid), st.agents[i].bid)
    THEN {trans(st, i, t, FNeg(st.agents[t].bid))}
         \cup (IF PopMayPanic(st.agents, st.sells, t) THEN {CdaPanic(st)} ELSE {})
    ELSE {[st EXCEPT !.buys = st.buys \cup {i}]}
         \cup (IF PushMayPanic(st.agents, st.buys, i) THEN {CdaPanic(st)} ELSE {})

\* BuyerArrives comparing the seller's bid, not its negation, with the bid
BuyerArrivesNoNegation(st, i, t) ==
    IF t # 0 /\ FLe(st.agents[t].bid, st.agents[i].bid)
    THEN {[trans(st, i, t, FNeg(st.agents[t].bid))
             EXCEPT !.sells = st.sells \ {t}]}
         \cup (IF PopMayPanic(st.agents, st.sells, t) THEN {CdaPanic(st)} ELSE {})
    ELSE {[st EXCEPT !.buys = st.buys \cup {i}]}
         \cup (IF PushMayPanic(st.agents, st.buys, i) THEN {CdaPanic(st)} ELSE {})

\* a buyer at position i arrives, t the root of sells (0: sells is empty)
BuyerArrives(st, i, t) ==
    IF t # 0 /\ FLe(FNeg(st.agents[t].bid), st.agents[i].bid)
    THEN {[trans(st, i, t, FNeg(st.agents[t].bid))
             EXCEPT !.sells = st.sells \ {t}]}
         \cup (IF PopMayPanic(st.agents, st.sells, t) THEN {CdaPanic(st)} ELSE {})
    ELSE {[st EXCEPT !.buys = st.buys \cup {i}]}
         \cup (IF PushMayPanic(st.agents, st.buys, i) THEN {CdaPanic(st)} ELSE {})

\* SellerArrives trading only when its ask is strictly below the best bid
SellerArrivesStrict(st, i, t) ==
    IF t # 0 /\ FLe(FNeg(st.agents[i].bid), st.agents[t].bid)
             /\ FNeg(st.agents[i].bid) # st.agents[t].bid
    THEN {[trans(st, t, i, st.agents[t].bid)
             EXCEPT !.buys = st.buys \ {t}]}
         \cup (IF PopMayPanic(st.agents, st.buys, t) THEN {CdaPanic(st)} ELSE {})
    ELSE {[st EXCEPT !.sells = st.sells \cup {i}]}
         \cup (IF PushMayPanic(st.agents, st.sells, i) THEN {CdaPanic(st)} ELSE {})

\* a seller at position i arrives, t the root of buys (0: buys is empty)
SellerArrives(st, i, t) ==
    IF t # 0 /\ FLe(FNeg(st.agents[i].bid), st.agents[t].bid)
    THEN {[trans(st, t, i, st.agents[t].bid)
             EXCEPT !.buys = st.buys \ {t}]}
         \cup (IF PopMayPanic(st.agents, st.buys, t) THEN {CdaPanic(st)} ELSE {})
    ELSE {[st EXCEPT !.sells = st.sells \cup {i}]}
         \cup (IF PushMayPanic(st.agents, st.sells, i) THEN {CdaPanic(st)} ELSE {})

Peek(ags, H) == IF H = {} THEN {0} ELSE Top(ags, H)

\* every outcome of one iteration of the for loop, for the agent at i
CdaIteration(st, i) ==
    IF st.agents[i].buyer
    THEN UNION {BuyerArrives(st, i, t) : t \in Peek(st.agents, st.sells)}
    ELSE UNION {SellerArrives(st, i, t) : t \in Peek(st.agents, st.buys)}

RECURSIVE CdaLoop(_, _)
\* every outcome of the for loop from position i on, begun in a state of S
CdaLoop(S, i) ==
    IF \A st \in S : i > Len(st.agents) THEN S
    ELSE CdaLoop(UNION {CdaIteration(st, i) : st \in S}, i + 1)

\* every outcome of the for loop over the slice ags as it stands
CdaRun(ags) ==
    CdaLoop({[agents |-> ags, buys |-> {}, sells |-> {},
              avg_price |-> Zero, num_trans |-> 0, panic |-> FALSE]}, 1)

\* what Cda::simulate returns
CdaResult(avg, n) == IF n > 0 THEN Some(avg.num, avg.den) ELSE None

-----------------------------------------------------------------------------
(* main.rs: run_sim *)

RECURSIVE SumUtility(_, _)
\* agents.iter().fold(0.0, |sum, a| sum + a.utility), from position i on
SumUtility(ags, i) ==
    IF i > Len(ags) THEN 0 ELSE FAdd(SumUtility(ags, i + 1), ags[i].utility)

RECURSIVE DecomposeOneBucket(_, _, _)
\* Decompose with the else-if arm taken for every agent that did not trade
DecomposeOneBucket(ags, price, i) ==
    IF i > Len(ags) THEN [im |-> 0, em |-> 0]
    ELSE LET rest == DecomposeOneBucket(ags, price, i + 1)
             a == ags[i]
         IN  IF a.traded /\ ~a.ce_traded
             THEN [rest EXCEPT !.em = FAdd(rest.em, FMul(sign(a), FSub(price, a.value)))]
             ELSE IF ~a.traded
             THEN [rest EXCEPT !.im = FAdd(rest.im, FMul(sign(a), FSub(a.value, price)))]
             ELSE rest

RECURSIVE Decompose(_, _, _)
\* the loop over agents.iter() of the Some(price) arm, from position i on
Decompose(ags, price, i) ==
    IF i > Len(ags) THEN [im |-> 0, em |-> 0]
    ELSE LET rest == Decompose(ags, price, i + 1)
             a == ags[i]
         IN  IF a.traded /\ ~a.ce_traded
             THEN [rest EXCEPT !.em = FAdd(rest.em, FMul(sign(a), FSub(price, a.value)))]
             ELSE IF ~a.traded /\ a.ce_traded
             THEN [rest EXCEPT !.im = FAdd(rest.im, FMul(sign(a), FSub(a.value, price)))]
             ELSE rest

NoFeatures == [set |-> FALSE]

Features(ags, cep, ces) ==
    LET surplus == SumUtility(ags, 1)
    IN  [set |-> TRUE,
         surplus |-> surplus,
         ce_surplus |-> ces,
         im_surplus |-> IF cep.some THEN Decompose(ags, cep.num, 1).im ELSE 0,
         em_surplus |-> IF cep.some THEN Decompose(ags, cep.num, 1).em
                        ELSE FSub(ces, surplus),
         ce_price |-> cep]

-----------------------------------------------------------------------------------------------------------------------------------------------------
(* The populations of run_sim *)

\* main: the buyers of the assignment first, then its sellers; here every
\* agent plays the configured default style, the nb buyers one shading
\* strength and the ns sellers one
Population(nb, ns, style, sb, ss) ==
    [i \in 1..(nb + ns) |->
        IF i <= nb THEN NewAgent(TRUE, style, sb)
        ELSE NewAgent(FALSE, style, ss)]

Populations ==
    {Population(nb, ns, style, sb, ss) :
        nb \in 1..MaxBuyers, ns \in 1..MaxSellers,
        style \in Style, sb \in GridValues, ss \in GridValues}

NoLocals ==
    /\ ret = None
    /\ ce_price = None
    /\ ce_surplus = 0
    /\ features = [set |-> FALSE]
    /\ buys = {}
    /\ sells = {}
    /\ idx = 1
    /\ avg_price = Zero
    /\ num_trans = 0

Init ==
    /\ agents \in Populations
    /\ useCda \in BOOLEAN
    /\ pc = "start"
    /\ NoLocals

-----------------------------------------------------------------------------
(* run_sim, step by step *)

\* agents.iter_mut().for_each(Agent::resample): any values of the grid
Resample ==
    /\ pc \in {"start", "done"}
    /\ \E v \in [Positions(agents) -> GridValues] :
          agents' = [i \in Positions(agents) |-> resample(agents[i], v[i])]
    /\ pc' = "resampled"
    /\ features' = NoFeatures
    /\ UNCHANGED <<useCda, ret, ce_price, ce_surplus, cdaVars>>

\* ce_price = Call.simulate(agents); ce_traded = traded; ce_surplus
Benchmark ==
    /\ pc = "resampled"
    /\ \E o \in CallSimulate(agents) :
          /\ agents' = [i \in Positions(agents) |->
                          [o.agents[i] EXCEPT !.ce_traded = o.agents[i].traded]]
          /\ ce_price' = o.ret
          /\ ce_surplus' = SumUtility(o.agents, 1)
          /\ pc' = IF o.panic THEN "panicked" ELSE "benchmarked"
    /\ UNCHANGED <<useCda, ret, features, cdaVars>>

\* agents.iter_mut().for_each(Agent::shade)
ShadeAll ==
    /\ pc = "benchmarked"
    /\ agents' = [i \in Positions(agents) |-> shade(agents[i])]
    /\ pc' = "shaded"
    /\ UNCHANGED <<useCda, ret, simVars, cdaVars>>

\* market.simulate(agents) with market = Call
CallRun ==
    /\ pc = "shaded"
    /\ ~useCda
    /\ \E o \in CallSimulate(agents) :
          /\ agents' = o.agents
          /\ ret' = o.ret
          /\ pc' = IF o.panic THEN "panicked" ELSE "cleared"
    /\ UNCHANGED <<useCda, simVars, cdaVars>>

\* market.simulate(agents) with market = Cda: up to the for loop
CdaShuffle ==
    /\ pc = "shaded"
    /\ useCda
    /\ agents' \in Shuffles(agents)
    /\ pc' = "cda"
    /\ buys' = {}
    /\ sells' = {}
    /\ idx' = 1
    /\ avg_price' = Zero
    /\ num_trans' = 0
    /\ UNCHANGED <<useCda, ret, simVars>>

CdaState ==
    [agents |-> agents, buys |-> buys, sells |-> sells,
     avg_price |-> avg_price, num_trans |-> num_trans, panic |-> FALSE]

\* one iteration of for agent in agents.iter_mut(); after the last one
\* Cda::simulate returns
CdaStep ==
    /\ pc = "cda"
    /\ idx <= Len(agents)
    /\ \E o \in CdaIteration(CdaState, idx) :
          /\ agents' = o.agents
          /\ buys' = o.buys
          /\ sells' = o.sells
          /\ avg_price' = o.avg_price
          /\ num_trans' = o.num_trans
          /\ pc' = IF o.panic THEN "panicked"
                   ELSE IF idx = Len(agents) THEN "cleared" ELSE "cda"
          /\ ret' = IF ~o.panic /\ idx = Len(agents)
                    THEN CdaResult(o.avg_price, o.num_trans) ELSE ret
    /\ idx' = idx + 1
    /\ UNCHANGED <<useCda, simVars>>

\* the features of the round, and run_sim returns: its locals and those of
\* the market are gone
ComputeFeatures ==
    /\ pc = "cleared"
    /\ features' = Features(agents, ce_price, ce_surplus)
    /\ ce_price' = None
    /\ ce_surplus' = 0
    /\ ret' = None
    /\ buys' = {}
    /\ sells' = {}
    /\ idx' = 1
    /\ avg_price' = Zero
    /\ num_trans' = 0
    /\ pc' = "done"
    /\ UNCHANGED <<agents, useCda>>

Market == CallRun \/ CdaShuffle \/ CdaStep

Next == Resample \/ Benchmark \/ ShadeAll \/ Market \/ ComputeFeatures

Spec == Init /\ [][Next]_vars

-----------------------------------------------------------------------------
(* One agent on its own: the cycles of agent.rs's test_shading_invariant *)

InitAgent ==
    /\ agents \in {<<NewAgent(buyer, style, shading)>> :
                      buyer \in BOOLEAN, style \in Style, shading \in GridValues}
    /\ useCda = FALSE
    /\ pc = "new"
    /\ NoLocals

AgentCycle == {"new", "agent_resampled", "agent_shaded"}

\* agent.resample()
AgentResample ==
    /\ pc \in AgentCycle
    /\ \E v \in GridValues : agents' = <<resample(agents[1], v)>>
    /\ pc' = "agent_resampled"
    /\ UNCHANGED <<useCda, ret, simVars, cdaVars>>

\* agent.shade()
AgentShade ==
    /\ pc \in AgentCycle
    /\ agents' = <<shade(agents[1])>>
    /\ pc' = "agent_shaded"
    /\ UNCHANGED <<useCda, ret, simVars, cdaVars>>

NextAgent == AgentResample \/ AgentShade

SpecAgent == InitAgent /\ [][NextAgent]_vars

-----------------------------------------------------------------------------
(* A market on its own: the harness of market.rs's test_simple_call *)

\* tests::truthful, for any shading strength: a new Correct agent is given
\* its value and shades
Built(buyer, shading, value) ==
    shade([NewAgent(buyer, "Correct", shading) EXCEPT !.value = value])

\* buyers before sellers, then by value, then by shading
Key(a) ==
    (IF a.buyer THEN 0 ELSE 4 * M) + 2 * a.value
    + (IF a.shading = 0 THEN 0 ELSE 1)

Slices(shadings) ==
    UNION {[1..n -> {Built(buyer, shading, value) :
                        buyer \in BOOLEAN, shading \in shadings,
                        value \in GridValues}] : n \in 2..MaxMarketAgents}

\* Call takes the slice in any order; Cda shuffles it first, so that one
\* order of each population is enough
InitSlice(shadings) ==
    /\ useCda \in BOOLEAN
    /\ agents \in Slices(shadings)
    /\ useCda => \A i \in 1..(Len(agents) - 1) : Key(agents[i]) <= Key(agents[i + 1])
    /\ pc = "shaded"
    /\ NoLocals

InitMarket == InitSlice({0})

SpecMarket == InitMarket /\ [][Market]_vars

\* the same with strategies whose shading strength parsed to NaN
InitNaN == InitSlice({0, NaN})

SpecNaN == InitNaN /\ [][Market]_vars

\* the Cda alone, on slices long enough for three transactions
CdaSlices ==
    UNION {[1..n -> {Built(buyer, 0, value) :
                        buyer \in BOOLEAN, value \in GridValues}] :
             n \in 2..MaxCdaAgents}

InitCda ==
    /\ useCda = TRUE
    /\ agents \in CdaSlices
    /\ \A i \in 1..(Len(agents) - 1) : Key(agents[i]) <= Key(agents[i + 1])
    /\ pc = "shaded"
    /\ NoLocals

NextCda == CdaShuffle \/ CdaStep

SpecCda == InitCda /\ [][NextCda]_vars

-----------------------------------------------------------------------------
(* The claims *)

\* C4: after shade, whatever the style, the shading strength in [0, 1], the
\* role and the value, the agent's bid is at most sign * value, and this holds
\* after every one of any number of resample and shade calls on the agent.
C4_BidAtMostSignedValue ==
    pc = "agent_shaded" =>
        \A i \in Positions(agents) :
            agents[i].bid <= FMul(sign(agents[i]), agents[i].value)

\* C4 happens: a seller that was resampled to a value above 0 and shaded
\* with a strength above 0 bids strictly below its negated value.
C4_Witness ==
    /\ pc = "agent_shaded"
    /\ ~agents[1].buyer
    /\ agents[1].shading > 0
    /\ agents[1].value > 0
    /\ agents[1].bid < 0 - agents[1].value

\* C9 as stated: after shade, sign * bid <= value for buyers and sellers
\* alike, in every round on the same agents.
C9_SignedBidAtMostValue ==
    pc = "shaded" =>
        \A i \in Positions(agents) :
            FMul(sign(agents[i]), agents[i].bid) <= agents[i].value

\* C9 amended: after shade, in every round on the same agents, a buyer has
\* sign * bid <= value and a seller has sign * bid >= value (a seller never
\* asks less than its value).
C9_BuyerBelowSellerAbove ==
    pc = "shaded" =>
        \A i \in Positions(agents) :
            /\ agents[i].buyer =>
                  FMul(sign(agents[i]), agents[i].bid) <= agents[i].value
            /\ ~agents[i].buyer =>
                  FMul(sign(agents[i]), agents[i].bid) >= agents[i].value

\* C9 happens: after shade in a round of run_sim a buyer bids strictly less
\* than its value and a seller asks strictly more than its value.
C9_Witness ==
    /\ pc = "shaded"
    /\ \E i \in Positions(agents) :
          agents[i].buyer /\ agents[i].bid < agents[i].value
    /\ \E i \in Positions(agents) :
          ~agents[i].buyer /\ 0 - agents[i].bid > agents[i].value

\* C1: at the end of every round of run_sim on the reused population, with
\* Call or Cda as the market, the features satisfy
\* ce_surplus = surplus + im_surplus + em_surplus, with and without a
\* benchmark price.
C1_WelfareConservation ==
    pc = "done" =>
        features.ce_surplus
            = features.surplus + features.im_surplus + features.em_surplus

\* C1 happens: a round of the Cda ends with a benchmark price, a surplus and
\* both an intramarginal and an extramarginal term that are not 0.
C1_Witness ==
    /\ pc = "done"
    /\ useCda
    /\ features.ce_price.some
    /\ features.im_surplus # 0
    /\ features.em_surplus # 0
    /\ features.surplus # 0

\* the agents of the slice as new agents given the values of this round
Truthful(ags) ==
    [i \in Positions(ags) |->
        resample(NewAgent(ags[i].buyer, ags[i].style, ags[i].shading),
                 ags[i].value)]

\* and after they shaded
Shaded(ags) == [i \in Positions(ags) |-> shade(Truthful(ags)[i])]

\* the outcomes of the configured market on such agents, the slice in the
\* order the round left it in
ActualOutcomes(ags) ==
    IF useCda THEN CdaRun(Shaded(ags)) ELSE CallSimulate(Shaded(ags))

\* C10: at the end of every round on the same agents, with either market and
\* after any shuffle, ce_traded is the outcome of the call market on this
\* round's truthful bids, traded and utility are the outcome of the configured
\* market on this round's shaded bids alone, and an agent that did not trade
\* has utility 0.
C10_RoundScopedState ==
    pc = "done" =>
        /\ \E o \in CallSimulate(Truthful(agents)) :
              \A i \in Positions(agents) :
                  agents[i].ce_traded = o.agents[i].traded
        /\ \E o \in ActualOutcomes(agents) :
              \A i \in Positions(agents) :
                  /\ agents[i].traded = o.agents[i].traded
                  /\ agents[i].utility = o.agents[i].utility
        /\ \A i \in Positions(agents) :
              ~agents[i].traded => agents[i].utility = 0

\* C10 happens: a round of the Cda ends with the slice shuffled (a seller in
\* front), an agent that traded in the benchmark but not in the Cda, with
\* utility 0 although the benchmark paid it, and one that traded only in the Cda.
C10_Witness ==
    /\ pc = "done"
    /\ useCda
    /\ ~agents[1].buyer
    /\ \E i \in Positions(agents) :
          /\ agents[i].ce_traded /\ ~agents[i].traded /\ agents[i].utility = 0
          /\ features.ce_price.some
          /\ agents[i].value # features.ce_price.num
    /\ \E i \in Positions(agents) : agents[i].traded /\ ~agents[i].ce_traded

\* the ways to line up the positions S
Arrangements(S) ==
    {f \in [1..Cardinality(S) -> S] :
        \A i, j \in 1..Cardinality(S) : f[i] = f[j] => i = j}

BidsDescend(ags, f) ==
    \A i \in 1..(Len(f) - 1) : ags[f[i]].bid >= ags[f[i + 1]].bid

\* the first k buyers of bs each bid at least the ask of the seller of ss
\* in the same place
FirstCross(ags, bs, ss, k) ==
    \A i \in 1..k : 0 - ags[ss[i]].bid <= ags[bs[i]].bid

\* the largest such k
LargestMatch(ags, bs, ss) ==
    CHOOSE k \in 0..Min(Len(bs), Len(ss)) :
        /\ FirstCross(ags, bs, ss, k)
        /\ \A m \in (k + 1)..Min(Len(bs), Len(ss)) : ~FirstCross(ags, bs, ss, m)

\* the utility of an agent that transacts at price p
UtilityAt(a, p) == IF a.buyer THEN a.value - p ELSE p - a.value

\* C2: Call.simulate on non-NaN bids: for some descending order of the buyers
\* and of the sellers (ties in any order), matched is the largest k whose
\* first k pairs all cross; with matched = 0 it returns None and nobody
\* traded; otherwise it returns half the difference of the bids of the last
\* matched pair, exactly the first matched buyers and sellers traded, each
\* with utility (value - price) * sign, and all others have traded = false and
\* utility 0.
C2_CallClearing ==
    (pc = "cleared" /\ ~useCda) =>
        \E bs \in Arrangements(BuyerPos(agents)) :
        \E ss \in Arrangements(SellerPos(agents)) :
            /\ BidsDescend(agents, bs)
            /\ BidsDescend(agents, ss)
            /\ LET k == LargestMatch(agents, bs, ss)
                   first == {bs[i] : i \in 1..k} \cup {ss[i] : i \in 1..k}
               IN  IF k = 0
                   THEN /\ ret = None
                        /\ \A i \in Positions(agents) :
                              ~agents[i].traded /\ agents[i].utility = 0
                   ELSE /\ ret.some
                        /\ ret.den = 1
                        /\ 2 * ret.num = agents[bs[k]].bid - agents[ss[k]].bid
                        /\ \A i \in first :
                              /\ agents[i].traded
                              /\ agents[i].utility = UtilityAt(agents[i], ret.num)
                        /\ \A i \in Positions(agents) \ first :
                              ~agents[i].traded /\ agents[i].utility = 0

\* C2 happens: the scenario of test_simple_call on the grid, a buyer of value
\* 1, a seller of value 1/2, a buyer of value 0 and a seller of value 0, all
\* truthful: the price is 1/2 and only the first and the last trade.
C2_Witness ==
    /\ pc = "cleared"
    /\ ~useCda
    /\ Len(agents) = 4
    /\ agents[1].buyer /\ agents[1].value = One /\ agents[1].traded
    /\ ~agents[2].buyer /\ 2 * agents[2].value = One /\ ~agents[2].traded
    /\ agents[3].buyer /\ agents[3].value = 0 /\ ~agents[3].traded
    /\ ~agents[4].buyer /\ agents[4].value = 0 /\ agents[4].traded
    /\ ret.some
    /\ 2 * ret.num = One * ret.den

\* the lowest ask among the resting sellers, the highest bid among the
\* resting buyers
LowestAsk == CHOOSE x \in {0 - agents[s].bid : s \in sells} :
                \A s \in sells : x <= 0 - agents[s].bid
HighestBid == CHOOSE x \in {agents[b].bid : b \in buys} :
                \A b \in buys : agents[b].bid <= x

\* positions b (a buyer) and s (a seller) transact at price p, nobody else
Transacted(b, s, p) ==
    agents' = [agents EXCEPT
                 ![b] = [agents[b] EXCEPT !.traded = TRUE,
                                          !.utility = agents[b].value - p],
                 ![s] = [agents[s] EXCEPT !.traded = TRUE,
                                          !.utility = p - agents[s].value]]

\* the matching rule for the agent at idx
MatchingRule ==
    IF agents[idx].buyer
    THEN IF sells # {} /\ LowestAsk <= agents[idx].bid
         THEN \E s \in sells :
                 /\ 0 - agents[s].bid = LowestAsk
                 /\ sells' = sells \ {s}
                 /\ buys' = buys
                 /\ Transacted(idx, s, LowestAsk)
         ELSE buys' = buys \cup {idx} /\ sells' = sells /\ agents' = agents
    ELSE IF buys # {} /\ 0 - agents[idx].bid <= HighestBid
         THEN \E b \in buys :
                 /\ agents[b].bid = HighestBid
                 /\ buys' = buys \ {b}
                 /\ sells' = sells
                 /\ Transacted(b, idx, HighestBid)
         ELSE sells' = sells \cup {idx} /\ buys' = buys /\ agents' = agents

\* C3: in every processing order, an arriving buyer trades iff a seller
\* rests and the lowest resting ask is at most its bid, then with one seller
\* of that ask, who leaves the book, both at that ask; otherwise it rests.  An
\* arriving seller trades with a resting buyer of the highest bid, at that bid,
\* iff its ask is at most that bid, else it rests.  Each utility comes from
\* the price of the agent's own transaction.
C3_MatchingRule ==
    [][(pc = "cda" /\ idx <= Len(agents)) => MatchingRule]_vars

\* the price an agent that traded paid or was paid
PriceOf(a) == IF a.buyer THEN a.value - a.utility ELSE a.value + a.utility

\* C3 happens: two transactions at two prices, so that at least one differs
\* from the average, which lies strictly between them.
C3_Witness ==
    /\ useCda
    /\ num_trans = 2
    /\ \E i, j \in Positions(agents) :
          /\ agents[i].traded /\ agents[j].traded
          /\ PriceOf(agents[i]) * avg_price.den < avg_price.num
          /\ avg_price.num < PriceOf(agents[j]) * avg_price.den

\* every buyer's bid is strictly less than every seller's ask
NoCross(ags) ==
    \A b \in BuyerPos(ags), s \in SellerPos(ags) :
        ags[b].bid < 0 - ags[s].bid

\* C5: on a freshly reset population in which every buyer's bid is strictly
\* below every seller's ask, Call.simulate and Cda.simulate, in every shuffle
\* order and at every point of the run, leave every agent with traded = false
\* and utility = 0, and both return None.
C5_NoMatchBoundary ==
    NoCross(agents) =>
        /\ \A i \in Positions(agents) :
              ~agents[i].traded /\ agents[i].utility = 0
        /\ pc # "panicked"
        /\ pc = "cleared" => ret = None

\* C5 happens: a CDA has returned on a population without a cross, with
\* orders of both sides left resting and a buyer bidding above zero.
C5_Witness ==
    /\ pc = "cleared"
    /\ useCda
    /\ NoCross(agents)
    /\ buys # {} /\ sells # {}
    /\ \E b \in buys : agents[b].bid > 0

\* the positions that traded, and the offers made there: a buyer's bid, a
\* seller's ask
TradedPos(ags) == {i \in Positions(ags) : ags[i].traded}
Offer(a) == IF a.buyer THEN a.bid ELSE 0 - a.bid

\* C6: in every processing order the CDA performs between 0 and floor(n/2)
\* transactions; it returns a price iff it performed one, and that average
\* price lies between the least and the greatest bid of the agents that
\* traded, and even between the least ask and the greatest bid among them.
C6_CdaTradeCountBound ==
    (useCda /\ pc \in {"cda", "cleared"}) =>
        /\ 0 <= num_trans
        /\ 2 * num_trans <= Len(agents)
        /\ Cardinality(TradedPos(agents)) = 2 * num_trans
        /\ pc = "cleared" =>
              /\ ret.some <=> num_trans > 0
              /\ num_trans > 0 =>
                    /\ ret.den > 0
                    /\ \E i \in TradedPos(agents) :
                          agents[i].bid * ret.den <= ret.num
                    /\ \E i \in TradedPos(agents) :
                          ret.num <= agents[i].bid * ret.den
                    /\ \E i \in TradedPos(agents) :
                          Offer(agents[i]) * ret.den <= ret.num

\* C6 happens: a CDA returned after floor(n/2) = 2 transactions at two
\* prices, with a shaded seller among the traders.
C6_Witness ==
    /\ useCda
    /\ pc = "cleared"
    /\ num_trans = 2
    /\ Len(agents) = 4
    /\ \E i, j \in TradedPos(agents) :
          /\ ~agents[i].buyer
          /\ agents[i].bid # 0 - agents[i].value
          /\ PriceOf(agents[i]) # PriceOf(agents[j])

\* C7: the clearing price and the number of matched pairs of Call.simulate
\* are the same for every ordering of the input slice and every order the
\* unstable sort leaves equal bids in.
C7_CallTieIndependence ==
    (~useCda /\ pc = "cleared") =>
        \A p \in Shuffles([i \in Positions(agents) |-> reset(agents[i])]) :
            \A o \in CallSimulate(p) :
                /\ ~o.panic
                /\ o.ret = ret
                /\ Cardinality(TradedPos(o.agents))
                     = Cardinality(TradedPos(agents))

\* C7 happens: a call market cleared where two buyers of one bid were at the
\* margin, one trading and the other not, in a slice that was not in bid order.
C7_Witness ==
    /\ ~useCda
    /\ pc = "cleared"
    /\ \E i, j \in BuyerPos(agents) :
          /\ agents[i].bid = agents[j].bid
          /\ agents[i].traded /\ ~agents[j].traded
    /\ \E i, j \in BuyerPos(agents) : i < j /\ agents[i].bid < agents[j].bid

\* C8: when an agent's bid is NaN and the population has a buyer and a
\* seller, the market aborts: it never returns, whether None or a price, and
\* marks no agent as traded.
C8_NaNIsFatal ==
    (/\ \E i \in Positions(agents) : IsNaN(agents[i].bid)
     /\ BuyerPos(agents) # {}
     /\ SellerPos(agents) # {}) =>
        /\ pc # "cleared"
        /\ TradedPos(agents) = {}

\* the positions that traded in the benchmark
CeTradedPos(ags) == {i \in Positions(ags) : ags[i].ce_traded}

\* C11: from the benchmark clearing of a round to its features, ce_price is
\* None exactly when no agent has ce_traded, and then ce_surplus is 0.
C11_CePriceAbsentIffNoBenchmarkTrade ==
    /\ pc \in {"benchmarked", "shaded", "cda", "cleared"} =>
          /\ ce_price.some <=> CeTradedPos(agents) # {}
          /\ ~ce_price.some => ce_surplus = 0
    /\ pc = "done" =>
          /\ features.ce_price.some <=> CeTradedPos(agents) # {}
          /\ ~features.ce_price.some => features.ce_surplus = 0

\* C11 happens: a round ended without a benchmark price although a buyer had
\* a value above 0; and the features carry no price.
C11_Witness ==
    /\ pc = "done"
    /\ ~features.ce_price.some
    /\ CeTradedPos(agents) = {}
    /\ \E i \in BuyerPos(agents) : agents[i].value > 0

\* C12 as stated: under Exponential, shade scales the truthful bid
\* sign * value of a buyer and of a seller by the same factor exp(-shading).
C12_ExponentialOneFactor ==
    (pc = "agent_shaded" /\ agents[1].style = "Exponential") =>
        agents[1].bid = FMul(FMul(sign(agents[1]), agents[1].value),
                             FExp(FNeg(agents[1].shading)))

\* C12 amended: under Exponential, shade sets a buyer's bid to
\* value * exp(-shading) and a seller's bid to -value * exp(+shading): the
\* seller's ask grows with the shading strength.
C12_ExponentialBySide ==
    (pc = "agent_shaded" /\ agents[1].style = "Exponential") =>
        agents[1].bid =
            IF agents[1].buyer
            THEN FMul(agents[1].value, FExp(FNeg(agents[1].shading)))
            ELSE FNeg(FMul(agents[1].value, FExp(agents[1].shading)))

\* C12 happens: an Exponential seller of value and shading strength above 0
\* has shaded, and asks more than its value.
C12_Witness ==
    /\ pc = "agent_shaded"
    /\ agents[1].style = "Exponential"
    /\ ~agents[1].buyer
    /\ agents[1].shading > 0
    /\ agents[1].value > 0
    /\ 0 - agents[1].bid > agents[1].value

RECURSIVE SumOver(_, _)
\* the sum of the prices of the agents at the positions S
SumOver(ags, S) ==
    IF S = {} THEN 0
    ELSE LET i == CHOOSE j \in S : TRUE
         IN  PriceOf(ags[i]) + SumOver(ags, S \ {i})

\* the sum of the prices of the transactions so far, each read at its buyer
SumPrices == SumOver(agents, TradedPos(agents) \cap BuyerPos(agents))

\* C13: after every transaction of a Cda run, avg_price is the sum of the
\* transaction prices so far over their number; Cda.simulate returns None iff
\* there was no transaction, and else that arithmetic mean.
C13_CdaReturnsMeanPrice ==
    (useCda /\ pc \in {"cda", "cleared"}) =>
        /\ avg_price.den > 0
        /\ avg_price.num * num_trans = SumPrices * avg_price.den
        /\ pc = "cleared" =>
              /\ ret.some <=> num_trans > 0
              /\ ret.some =>
                    /\ ret.den > 0
                    /\ ret.num * num_trans = SumPrices * ret.den

\* C13 happens: a Cda returned the mean of three prices that are not all
\* the same.
C13_Witness ==
    /\ useCda
    /\ pc = "cleared"
    /\ num_trans = 3
    /\ ret.some
    /\ \E i, j \in TradedPos(agents) : PriceOf(agents[i]) # PriceOf(agents[j])

\* C14: resample sets the bid to sign * value; shade sets it, with s the
\* shading strength and numbers in units of 1/M, to value * (1 - s) for a
\* Standard or Correct buyer, value * (-1 - s) for a Standard seller,
\* (value - 1) * s - value for a Correct seller, value - s for a Shift buyer
\* and -value - s for a Shift seller; Correct with s = 0 gives sign * value
\* for both roles.
C14_NonExponentialFormulas ==
    LET a == agents[1]
        v == a.value
        s == a.shading
    IN  /\ pc = "agent_resampled" => a.bid = IF a.buyer THEN v ELSE 0 - v
        /\ pc = "agent_shaded" =>
              /\ (a.style \in {"Standard", "Correct"} /\ a.buyer) =>
                    a.bid * M = v * (M - s)
              /\ (a.style = "Standard" /\ ~a.buyer) =>
                    a.bid * M = v * (0 - M - s)
              /\ (a.style = "Correct" /\ ~a.buyer) =>
                    a.bid * M = (v - M) * s - v * M
              /\ (a.style = "Shift" /\ a.buyer) => a.bid = v - s
              /\ (a.style = "Shift" /\ ~a.buyer) => a.bid = 0 - v - s
              /\ (a.style = "Correct" /\ s = 0) =>
                    a.bid = IF a.buyer THEN v ELSE 0 - v

\* C14 happens: a Correct seller of value 0 and of shading strength above 0
\* has shaded and asks its shading strength, where a Standard seller asks 0.
C14_Witness ==
    /\ pc = "agent_shaded"
    /\ agents[1].style = "Correct"
    /\ ~agents[1].buyer
    /\ agents[1].shading > 0
    /\ agents[1].value = 0
    /\ agents[1].bid = 0 - agents[1].shading

RECURSIVE Gain(_, _)
\* the sum of sign * value over the agents at the positions S
Gain(ags, S) ==
    IF S = {} THEN 0
    ELSE LET i == CHOOSE j \in S : TRUE
         IN  (IF ags[i].buyer THEN ags[i].value ELSE 0 - ags[i].value)
             + Gain(ags, S \ {i})

\* the sets of positions with as many buyers as sellers
Balanced(ags) ==
    {S \in SUBSET Positions(ags) :
        Cardinality(S \cap BuyerPos(ags)) = Cardinality(S \cap SellerPos(ags))}

\* C15: in every round, with either market, in every processing order and
\* for every style and strength, ce_surplus is the sum of sign * value over
\* the agents that traded in the benchmark, no set of equally many buyers and
\* sellers has a greater sum, and ce_surplus >= surplus, that is
\* im_surplus + em_surplus >= 0.
C15_BenchmarkEfficiency ==
    pc = "done" =>
        /\ features.ce_surplus = Gain(agents, CeTradedPos(agents))
        /\ CeTradedPos(agents) \in Balanced(agents)
        /\ \A S \in Balanced(agents) : Gain(agents, S) <= features.ce_surplus
        /\ features.ce_surplus >= features.surplus
        /\ features.im_surplus + features.em_surplus >= 0

\* C15 happens: a round in which every agent traded in the benchmark ended
\* with a surplus above 0 and strictly below the benchmark surplus.
C15_Witness ==
    /\ pc = "done"
    /\ Cardinality(CeTradedPos(agents)) = 4
    /\ features.surplus > 0
    /\ features.surplus < features.ce_surplus

\* C16: after each agent is processed by the Cda, in every order, every
\* resting buyer bids strictly less than every resting seller asks; the
\* resting agents have not traded, no agent that traded rests, and every
\* processed agent either rests on its side or has traded.
C16_BookNeverCrossed ==
    (useCda /\ pc \in {"cda", "cleared"}) =>
        /\ \A b \in buys, s \in sells : agents[b].bid < 0 - agents[s].bid
        /\ buys \subseteq BuyerPos(agents)
        /\ sells \subseteq SellerPos(agents)
        /\ (buys \cup sells) \cap TradedPos(agents) = {}
        /\ buys \cup sells \cup TradedPos(agents) = 1..(idx - 1)

\* C16 happens: a Cda returned after a transaction with two buyers and two
\* sellers left resting.
C16_Witness ==
    /\ useCda
    /\ pc = "cleared"
    /\ num_trans >= 1
    /\ Cardinality(buys) = 2
    /\ Cardinality(sells) = 2

\* C17: with shading strengths and values in [0, 1], at every point of every
\* round (after the benchmark clearing, and during and after the clearing of
\* either market) every agent has utility >= 0: a buyer that traded paid at
\* most its value and a seller that traded was paid at least its value.
C17_IndividualRationality ==
    pc \in {"benchmarked", "shaded", "cda", "cleared", "done"} =>
        \A i \in Positions(agents) :
            /\ agents[i].utility >= 0
            /\ (agents[i].traded /\ agents[i].buyer) =>
                  PriceOf(agents[i]) <= agents[i].value
            /\ (agents[i].traded /\ ~agents[i].buyer) =>
                  PriceOf(agents[i]) >= agents[i].value

\* C17 happens: a round ended in which a shaded buyer paid exactly its
\* value, utility 0, to a shaded seller paid strictly more than its value.
C17_Witness ==
    /\ pc = "done"
    /\ \E b \in BuyerPos(agents), s \in SellerPos(agents) :
          /\ agents[b].traded /\ agents[s].traded
          /\ agents[b].value > 0
          /\ agents[b].utility = 0
          /\ agents[s].utility > 0
          /\ agents[s].shading > 0

\* the positions that trade in this step
NewlyTraded ==
    {i \in Positions(agents) : agents'[i].traded /\ ~agents[i].traded}

\* a step of a market pairs buyers with sellers, and leaves alone the agents
\* that traded before
OneShotStep ==
    /\ \A i \in Positions(agents) : agents[i].traded => agents'[i] = agents[i]
    /\ Cardinality(NewlyTraded \cap BuyerPos(agents'))
         = Cardinality(NewlyTraded \cap SellerPos(agents'))
    /\ \A i, j \in NewlyTraded : PriceOf(agents'[i]) = PriceOf(agents'[j])
    /\ pc = "cda" =>
          /\ Cardinality(NewlyTraded) \in {0, 2}
          /\ 2 * (num_trans' - num_trans) = Cardinality(NewlyTraded)

\* C18: during and after Call.simulate and Cda.simulate on a freshly reset
\* population as many buyers as sellers have traded; every transaction of the
\* Cda marks one buyer and one seller that had not traded, at one price, and
\* an agent that traded is not touched again in the run.
C18_BalancedOneShot ==
    /\ [](/\ Cardinality(TradedPos(agents) \cap BuyerPos(agents))
              = Cardinality(TradedPos(agents) \cap SellerPos(agents))
          /\ useCda => Cardinality(TradedPos(agents)) = 2 * num_trans)
    /\ [][OneShotStep]_vars

\* C18 happens: a Cda returned after one transaction between two of four
\* agents, the other buyer and the other seller resting.
C18_Witness ==
    /\ useCda
    /\ pc = "cleared"
    /\ num_trans = 1
    /\ Cardinality(buys) = 1
    /\ Cardinality(sells) = 1

\* C19: with shading strengths in [0, 1], in a round whose benchmark
\* clearing gave no price the clearing of the shaded bids, Call or Cda in any
\* order, makes no trade either, and the features of the round are
\* surplus = ce_surplus = im_surplus = em_surplus = 0.
C19_DegenerateBranchTradeFree ==
    /\ (pc \in {"cda", "cleared"} /\ ~ce_price.some) =>
          TradedPos(agents) = {} /\ (pc = "cleared" => ret = None)
    /\ (pc = "done" /\ ~features.ce_price.some) =>
          /\ TradedPos(agents) = {}
          /\ features.surplus = 0
          /\ features.ce_surplus = 0
          /\ features.im_surplus = 0
          /\ features.em_surplus = 0

\* C19 happens: a round of the Cda on two buyers and two sellers, every one
\* with a shading strength above 0 and the buyers with values above 0, ended
\* without a benchmark price.
C19_Witness ==
    /\ pc = "done"
    /\ useCda
    /\ ~features.ce_price.some
    /\ Len(agents) = 4
    /\ \A i \in Positions(agents) : agents[i].shading > 0
    /\ \A i \in BuyerPos(agents) : agents[i].value > 0

\* sign * (value - price) of an agent
SignedMargin(a, price) == FMul(sign(a), FSub(a.value, price))

====
